---- MODULE Spec2Model ----
(***************************************************************************)
(* GF(2^m) scalar kernels of galois/_fields/_gf2m.py and the module-level  *)
(* MULTIPLY / RECIPROCAL bindings the composite kernels call through.      *)
(***************************************************************************)
EXTENDS Integers, FiniteSets, Sequences, TLC

VARIABLES MULTIPLY, RECIPROCAL, rebind, call

vars == <<MULTIPLY, RECIPROCAL, rebind, call>>

(***************************************************************************)
(* Bounds.                                                                 *)
(***************************************************************************)
MaxDegree == 3
MaxExp == 4

CHARACTERISTIC == 2

(***************************************************************************)
(* Integer helpers: Python's **, ^, and bit length on non-negative ints.   *)
(***************************************************************************)
RECURSIVE IntPow(_, _)
IntPow(x, n) == IF n = 0 THEN 1 ELSE x * IntPow(x, n - 1)

RECURSIVE BitXor(_, _)
BitXor(x, y) ==
    IF x = 0 THEN y
    ELSE IF y = 0 THEN x
    ELSE (((x % 2) + (y % 2)) % 2) + (2 * BitXor(x \div 2, y \div 2))

RECURSIVE BitLength(_)
BitLength(x) == IF x = 0 THEN 0 ELSE 1 + BitLength(x \div 2)

abs(b) == IF b < 0 THEN -b ELSE b

(***************************************************************************)
(* Outcome of one kernel call: the value returned or the exception raised, *)
(* with the number of calls made through each binding slot on the way.     *)
(***************************************************************************)
Return(v, nmul, nrec) == [err |-> "none", val |-> v, mul |-> nmul, rec |-> nrec]
Raise(e, nmul, nrec) == [err |-> e, val |-> -1, mul |-> nmul, rec |-> nrec]

(***************************************************************************)
(* _multiply_calculate: shift-and-add product with reduction.              *)
(***************************************************************************)
RECURSIVE multiply_loop_strict(_, _, _, _, _)
multiply_loop_strict(a, b, c, ORDER, IRREDUCIBLE_POLY) ==
    IF b > 0
    THEN LET c1 == IF b % 2 = 1 THEN BitXor(c, a) ELSE c
             b1 == b \div 2
             a1 == 2 * a
             a2 == IF a1 > ORDER THEN BitXor(a1, IRREDUCIBLE_POLY) ELSE a1
         IN  multiply_loop_strict(a2, b1, c1, ORDER, IRREDUCIBLE_POLY)
    ELSE c

RECURSIVE multiply_loop_shift_first(_, _, _, _, _)
multiply_loop_shift_first(a, b, c, ORDER, IRREDUCIBLE_POLY) ==
    IF b > 0
    THEN LET a1 == 2 * a
             a2 == IF a1 >= ORDER THEN BitXor(a1, IRREDUCIBLE_POLY) ELSE a1
             c1 == IF b % 2 = 1 THEN BitXor(c, a2) ELSE c
             b1 == b \div 2
         IN  multiply_loop_shift_first(a2, b1, c1, ORDER, IRREDUCIBLE_POLY)
    ELSE c

RECURSIVE multiply_loop(_, _, _, _, _)
multiply_loop(a, b, c, ORDER, IRREDUCIBLE_POLY) ==
    IF b > 0
    THEN LET c1 == IF b % 2 = 1 THEN BitXor(c, a) ELSE c
             b1 == b \div 2
             a1 == 2 * a
             a2 == IF a1 >= ORDER THEN BitXor(a1, IRREDUCIBLE_POLY) ELSE a1
         IN  multiply_loop(a2, b1, c1, ORDER, IRREDUCIBLE_POLY)
    ELSE c

_multiply_calculate(a, b, CHAR, DEGREE, IRREDUCIBLE_POLY) ==
    LET ORDER == IntPow(CHAR, DEGREE)
        a0 == IF b > a THEN b ELSE a
        b0 == IF b > a THEN a ELSE b
    IN  multiply_loop(a0, b0, 0, ORDER, IRREDUCIBLE_POLY)

(***************************************************************************)
(* A call through the MULTIPLY slot.  Both the jitted and the pure-Python  *)
(* kernel a slot can hold run the class's _multiply_calculate on the       *)
(* parameters passed at the call site.                                     *)
(***************************************************************************)
CallMULTIPLY(a, b, CHAR, DEGREE, IRREDUCIBLE_POLY) ==
    _multiply_calculate(a, b, CHAR, DEGREE, IRREDUCIBLE_POLY)

(***************************************************************************)
(* _reciprocal_calculate: a^(ORDER-2) by square and multiply.              *)
(***************************************************************************)
RECURSIVE reciprocal_loop(_, _, _, _, _, _, _)
reciprocal_loop(exponent, result_s, result_m, n, CHAR, DEGREE, IRREDUCIBLE_POLY) ==
    IF exponent > 1
    THEN IF exponent % 2 = 0
         THEN reciprocal_loop(exponent \div 2,
                              CallMULTIPLY(result_s, result_s, CHAR, DEGREE, IRREDUCIBLE_POLY),
                              result_m, n + 1, CHAR, DEGREE, IRREDUCIBLE_POLY)
         ELSE reciprocal_loop(exponent - 1, result_s,
                              CallMULTIPLY(result_m, result_s, CHAR, DEGREE, IRREDUCIBLE_POLY),
                              n + 1, CHAR, DEGREE, IRREDUCIBLE_POLY)
    ELSE Return(CallMULTIPLY(result_m, result_s, CHAR, DEGREE, IRREDUCIBLE_POLY), n + 1, 0)

_reciprocal_calculate_order_minus_1(a, CHAR, DEGREE, IRREDUCIBLE_POLY) ==
    IF a = 0
    THEN Raise("ZeroDivisionError", 0, 0)
    ELSE LET ORDER == IntPow(CHAR, DEGREE)
         IN  reciprocal_loop(ORDER - 1, a, 1, 0, CHAR, DEGREE, IRREDUCIBLE_POLY)

_reciprocal_calculate(a, CHAR, DEGREE, IRREDUCIBLE_POLY) ==
    IF a = 0
    THEN Raise("ZeroDivisionError", 0, 0)
    ELSE LET ORDER == IntPow(CHAR, DEGREE)
         IN  reciprocal_loop(ORDER - 2, a, 1, 0, CHAR, DEGREE, IRREDUCIBLE_POLY)

CallRECIPROCAL(a, CHAR, DEGREE, IRREDUCIBLE_POLY) ==
    _reciprocal_calculate(a, CHAR, DEGREE, IRREDUCIBLE_POLY)

(***************************************************************************)
(* _divide_calculate.                                                      *)
(***************************************************************************)
_divide_calculate_zero_dividend_first(a, b, CHAR, DEGREE, IRREDUCIBLE_POLY) ==
    IF a = 0
    THEN Return(0, 0, 0)
    ELSE IF b = 0
    THEN Raise("ZeroDivisionError", 0, 0)
    ELSE LET b_inv == CallRECIPROCAL(b, CHAR, DEGREE, IRREDUCIBLE_POLY)
         IN  IF b_inv.err # "none"
             THEN Raise(b_inv.err, b_inv.mul, 1)
             ELSE Return(CallMULTIPLY(a, b_inv.val, CHAR, DEGREE, IRREDUCIBLE_POLY),
                         b_inv.mul + 1, 1)

_divide_calculate_by_b(a, b, CHAR, DEGREE, IRREDUCIBLE_POLY) ==
    IF b = 0
    THEN Raise("ZeroDivisionError", 0, 0)
    ELSE IF a = 0
    THEN Return(0, 0, 0)
    ELSE LET b_inv == CallRECIPROCAL(b, CHAR, DEGREE, IRREDUCIBLE_POLY)
         IN  IF b_inv.err # "none"
             THEN Raise(b_inv.err, b_inv.mul, 1)
             ELSE Return(CallMULTIPLY(a, b, CHAR, DEGREE, IRREDUCIBLE_POLY),
                         b_inv.mul + 1, 1)

_divide_calculate(a, b, CHAR, DEGREE, IRREDUCIBLE_POLY) ==
    IF b = 0
    THEN Raise("ZeroDivisionError", 0, 0)
    ELSE IF a = 0
    THEN Return(0, 0, 0)
    ELSE LET b_inv == CallRECIPROCAL(b, CHAR, DEGREE, IRREDUCIBLE_POLY)
         IN  IF b_inv.err # "none"
             THEN Raise(b_inv.err, b_inv.mul, 1)
             ELSE Return(CallMULTIPLY(a, b_inv.val, CHAR, DEGREE, IRREDUCIBLE_POLY),
                         b_inv.mul + 1, 1)

(***************************************************************************)
(* _power_calculate: square and multiply, negative exponents through the   *)
(* RECIPROCAL slot.                                                        *)
(***************************************************************************)
RECURSIVE power_loop_drop_m(_, _, _, _, _, _, _, _)
power_loop_drop_m(b, result_s, result_m, nmul, nrec, CHAR, DEGREE, IRREDUCIBLE_POLY) ==
    IF b > 1
    THEN IF b % 2 = 0
         THEN power_loop_drop_m(b \div 2,
                         CallMULTIPLY(result_s, result_s, CHAR, DEGREE, IRREDUCIBLE_POLY),
                         result_m, nmul + 1, nrec, CHAR, DEGREE, IRREDUCIBLE_POLY)
         ELSE power_loop_drop_m(b - 1, result_s,
                         CallMULTIPLY(result_m, result_s, CHAR, DEGREE, IRREDUCIBLE_POLY),
                         nmul + 1, nrec, CHAR, DEGREE, IRREDUCIBLE_POLY)
    ELSE Return(result_s, nmul, nrec)

RECURSIVE power_loop(_, _, _, _, _, _, _, _)
power_loop(b, result_s, result_m, nmul, nrec, CHAR, DEGREE, IRREDUCIBLE_POLY) ==
    IF b > 1
    THEN IF b % 2 = 0
         THEN power_loop(b \div 2,
                         CallMULTIPLY(result_s, result_s, CHAR, DEGREE, IRREDUCIBLE_POLY),
                         result_m, nmul + 1, nrec, CHAR, DEGREE, IRREDUCIBLE_POLY)
         ELSE power_loop(b - 1, result_s,
                         CallMULTIPLY(result_m, result_s, CHAR, DEGREE, IRREDUCIBLE_POLY),
                         nmul + 1, nrec, CHAR, DEGREE, IRREDUCIBLE_POLY)
    ELSE Return(CallMULTIPLY(result_m, result_s, CHAR, DEGREE, IRREDUCIBLE_POLY),
                nmul + 1, nrec)

_power_calculate_no_abs(a, b, CHAR, DEGREE, IRREDUCIBLE_POLY) ==
    IF a = 0 /\ b < 0
    THEN Raise("ZeroDivisionError", 0, 0)
    ELSE IF b = 0
    THEN Return(1, 0, 0)
    ELSE IF b < 0
    THEN LET a_inv == CallRECIPROCAL(a, CHAR, DEGREE, IRREDUCIBLE_POLY)
         IN  IF a_inv.err # "none"
             THEN Raise(a_inv.err, a_inv.mul, 1)
             ELSE power_loop(b, a_inv.val, 1, a_inv.mul, 1,
                             CHAR, DEGREE, IRREDUCIBLE_POLY)
    ELSE power_loop(b, a, 1, 0, 0, CHAR, DEGREE, IRREDUCIBLE_POLY)

_power_calculate(a, b, CHAR, DEGREE, IRREDUCIBLE_POLY) ==
    IF a = 0 /\ b < 0
    THEN Raise("ZeroDivisionError", 0, 0)
    ELSE IF b = 0
    THEN Return(1, 0, 0)
    ELSE IF b < 0
    THEN LET a_inv == CallRECIPROCAL(a, CHAR, DEGREE, IRREDUCIBLE_POLY)
         IN  IF a_inv.err # "none"
             THEN Raise(a_inv.err, a_inv.mul, 1)
             ELSE power_loop(abs(b), a_inv.val, 1, a_inv.mul, 1,
                             CHAR, DEGREE, IRREDUCIBLE_POLY)
    ELSE power_loop(b, a, 1, 0, 0, CHAR, DEGREE, IRREDUCIBLE_POLY)

(***************************************************************************)
(* _log_calculate: linear scan for i in range(0, ORDER - 1).               *)
(***************************************************************************)
RECURSIVE log_loop(_, _, _, _, _, _, _, _)
log_loop(i, result, n, a, b, CHAR, DEGREE, IRREDUCIBLE_POLY) ==
    LET ORDER == IntPow(CHAR, DEGREE)
    IN  IF result = a
        THEN Return(i, n, 0)
        ELSE IF i + 1 < ORDER - 1
        THEN log_loop(i + 1, CallMULTIPLY(result, b, CHAR, DEGREE, IRREDUCIBLE_POLY),
                      n + 1, a, b, CHAR, DEGREE, IRREDUCIBLE_POLY)
        ELSE Return(i, n + 1, 0)

_log_calculate_from_b(a, b, CHAR, DEGREE, IRREDUCIBLE_POLY) ==
    IF a = 0
    THEN Raise("ArithmeticError", 0, 0)
    ELSE log_loop(0, b, 0, a, b, CHAR, DEGREE, IRREDUCIBLE_POLY)

_log_calculate(a, b, CHAR, DEGREE, IRREDUCIBLE_POLY) ==
    IF a = 0
    THEN Raise("ArithmeticError", 0, 0)
    ELSE log_loop(0, 1, 0, a, b, CHAR, DEGREE, IRREDUCIBLE_POLY)

(***************************************************************************)
(* _sqrt: a ** (characteristic ** (degree - 1)), through the power kernel. *)
(***************************************************************************)
_sqrt_full_degree(a, CHAR, DEGREE, IRREDUCIBLE_POLY) ==
    _power_calculate(a, IntPow(CHAR, DEGREE), CHAR, DEGREE, IRREDUCIBLE_POLY)

_sqrt(a, CHAR, DEGREE, IRREDUCIBLE_POLY) ==
    _power_calculate(a, IntPow(CHAR, DEGREE - 1), CHAR, DEGREE, IRREDUCIBLE_POLY)

(***************************************************************************)
(* Polynomial arithmetic over GF(2) on coefficient bitmasks: the textbook  *)
(* definitions the kernels are compared against.                           *)
(***************************************************************************)
RECURSIVE ClMul(_, _)
ClMul(x, y) ==
    IF y = 0 THEN 0
    ELSE BitXor(IF y % 2 = 1 THEN x ELSE 0, 2 * ClMul(x, y \div 2))

RECURSIVE PolyMod(_, _)
PolyMod(x, p) ==
    IF BitLength(x) < BitLength(p) THEN x
    ELSE PolyMod(BitXor(x, p * IntPow(2, BitLength(x) - BitLength(p))), p)

IsIrreducible(p, m) ==
    \A d \in 2 .. (IntPow(2, m) - 1) : PolyMod(p, d) # 0

(***************************************************************************)
(* Field classes: one GF2m subclass per (degree, irreducible_poly).  GF2m  *)
(* is the base class itself, which carries no field parameters.            *)
(***************************************************************************)
Descriptors ==
    UNION {{[degree |-> m, irreducible_poly |-> p] :
                p \in IntPow(2, m) .. (IntPow(2, m + 1) - 1)} : m \in 1 .. MaxDegree}

FieldClasses ==
    {F \in Descriptors : F.irreducible_poly % 2 = 1
                         /\ IsIrreducible(F.irreducible_poly, F.degree)}

GF2m == [degree |-> 0, irreducible_poly |-> 0]

order(F) == IntPow(CHARACTERISTIC, F.degree)
Elements(F) == 0 .. (order(F) - 1)
Exponents(F) == ((0 - MaxExp) .. MaxExp) \cup (0 .. (order(F) - 2))

(***************************************************************************)
(* Kernel lookup of the FieldArray base: the class's jitted or pure-Python *)
(* kernel for an operation name.                                           *)
(***************************************************************************)
_func_calculate(cls, name) == [cls |-> cls, name |-> name, kind |-> "calculate"]
_func_python(cls, name) == [cls |-> cls, name |-> name, kind |-> "python"]

Names == {"multiply", "reciprocal", "divide", "power", "log"}

NoCall == [op |-> "none", cls |-> GF2m, a |-> 0, b |-> 0,
           err |-> "none", val |-> 0, mul |-> 0, rec |-> 0]

Called(op, cls, a, b, r) ==
    [op |-> op, cls |-> cls, a |-> a, b |-> b,
     err |-> r.err, val |-> r.val, mul |-> r.mul, rec |-> r.rec]

(***************************************************************************)
(* State after import: the module body ends with GF2m._reset_globals().    *)
(***************************************************************************)
Init ==
    /\ MULTIPLY = _func_python(GF2m, "multiply")
    /\ RECIPROCAL = _func_python(GF2m, "reciprocal")
    /\ rebind = [cls |-> GF2m, name |-> "reset"]
    /\ call = NoCall

_set_globals_lists_swapped(cls, name) ==
    /\ MULTIPLY' = IF name \in {"divide", "power"}
                   THEN _func_calculate(cls, "multiply")
                   ELSE MULTIPLY
    /\ RECIPROCAL' = IF name \in {"reciprocal", "divide", "power", "log"}
                     THEN _func_calculate(cls, "reciprocal")
                     ELSE RECIPROCAL
    /\ rebind' = [cls |-> cls, name |-> name]
    /\ call' = NoCall

_set_globals(cls, name) ==
    /\ MULTIPLY' = IF name \in {"reciprocal", "divide", "power", "log"}
                   THEN _func_calculate(cls, "multiply")
                   ELSE MULTIPLY
    /\ RECIPROCAL' = IF name \in {"divide", "power"}
                     THEN _func_calculate(cls, "reciprocal")
                     ELSE RECIPROCAL
    /\ rebind' = [cls |-> cls, name |-> name]
    /\ call' = NoCall

_reset_globals(cls) ==
    /\ MULTIPLY' = _func_python(cls, "multiply")
    /\ RECIPROCAL' = _func_python(cls, "reciprocal")
    /\ rebind' = [cls |-> cls, name |-> "reset"]
    /\ call' = NoCall

(***************************************************************************)
(* Kernel invocations.  A composite kernel of class cls runs after the     *)
(* caller rebound the slots for that operation, or on the pure-Python      *)
(* bindings left by cls._reset_globals().  The kernels read the slots and  *)
(* never write them, so every call made under one rebinding starts from    *)
(* the same bindings; call keeps the first of them.                        *)
(***************************************************************************)
Bound(cls, name) ==
    /\ rebind.cls = cls
    /\ rebind.name \in {name, "reset"}
    /\ call = NoCall

Multiply(cls, a, b) ==
    /\ call = NoCall
    /\ call' = Called("multiply", cls, a, b,
                      Return(_multiply_calculate(a, b, CHARACTERISTIC, cls.degree,
                                                 cls.irreducible_poly), 0, 0))
    /\ UNCHANGED <<MULTIPLY, RECIPROCAL, rebind>>

Reciprocal(cls, a) ==
    /\ Bound(cls, "reciprocal")
    /\ call' = Called("reciprocal", cls, a, 0,
                      _reciprocal_calculate(a, CHARACTERISTIC, cls.degree,
                                            cls.irreducible_poly))
    /\ UNCHANGED <<MULTIPLY, RECIPROCAL, rebind>>

Divide(cls, a, b) ==
    /\ Bound(cls, "divide")
    /\ call' = Called("divide", cls, a, b,
                      _divide_calculate(a, b, CHARACTERISTIC, cls.degree,
                                        cls.irreducible_poly))
    /\ UNCHANGED <<MULTIPLY, RECIPROCAL, rebind>>

Power(cls, a, b) ==
    /\ Bound(cls, "power")
    /\ call' = Called("power", cls, a, b,
                      _power_calculate(a, b, CHARACTERISTIC, cls.degree,
                                       cls.irreducible_poly))
    /\ UNCHANGED <<MULTIPLY, RECIPROCAL, rebind>>

Log(cls, a, b) ==
    /\ Bound(cls, "log")
    /\ call' = Called("log", cls, a, b,
                      _log_calculate(a, b, CHARACTERISTIC, cls.degree,
                                     cls.irreducible_poly))
    /\ UNCHANGED <<MULTIPLY, RECIPROCAL, rebind>>

Sqrt(cls, a) ==
    /\ Bound(cls, "power")
    /\ call' = Called("sqrt", cls, a, 0,
                      _sqrt(a, CHARACTERISTIC, cls.degree, cls.irreducible_poly))
    /\ UNCHANGED <<MULTIPLY, RECIPROCAL, rebind>>

Next ==
    \/ \E cls \in FieldClasses, name \in Names : _set_globals(cls, name)
    \/ \E cls \in FieldClasses : _reset_globals(cls)
    \/ \E cls \in FieldClasses : \E a \in Elements(cls) : Reciprocal(cls, a)
    \/ \E cls \in FieldClasses : \E a \in Elements(cls), b \in Elements(cls) : Divide(cls, a, b)
    \/ \E cls \in FieldClasses : \E a \in Elements(cls), b \in Exponents(cls) : Power(cls, a, b)
    \/ \E cls \in FieldClasses : \E a \in Elements(cls), b \in Elements(cls) : Log(cls, a, b)
    \/ \E cls \in FieldClasses : \E a \in Elements(cls) : Sqrt(cls, a)

Spec == Init /\ [][Next]_vars

(***************************************************************************)
(* The multiply kernel on its own: a static function of its arguments, run *)
(* on every degree-m modulus, irreducible or not.                          *)
(***************************************************************************)
NextMultiply ==
    \E cls \in Descriptors : \E a \in Elements(cls), b \in Elements(cls) : Multiply(cls, a, b)

SpecMultiply == Init /\ [][NextMultiply]_vars

(***************************************************************************)
(* Reference notions used by the properties.                               *)
(***************************************************************************)
mul(F, x, y) == _multiply_calculate(x, y, CHARACTERISTIC, F.degree, F.irreducible_poly)

RECURSIVE RefPow(_, _, _)
RefPow(F, x, e) == IF e = 0 THEN 1 ELSE mul(F, x, RefPow(F, x, e - 1))

IsPrimitive(F, x) ==
    {RefPow(F, x, e) : e \in 0 .. (order(F) - 2)} = Elements(F) \ {0}

reciprocal(F, x) ==
    _reciprocal_calculate(x, CHARACTERISTIC, F.degree, F.irreducible_poly).val

discrete_log(F, x, y) ==
    _log_calculate(x, y, CHARACTERISTIC, F.degree, F.irreducible_poly)

HasLog(F, x, y) == \E e \in 0 .. (order(F) - 2) : RefPow(F, y, e) = x

CompositeOps == {"reciprocal", "divide", "power", "log"}

(***************************************************************************)
(* C1: for every degree m >= 1 and every modulus p with 2^m <= p < 2^(m+1),*)
(* _multiply_calculate(a, b) is the carry-less product a(x)*b(x) reduced   *)
(* modulo p(x), and lies in [0, order).                                    *)
(***************************************************************************)
C1_MultiplyIsProductModPoly ==
    call.op = "multiply" =>
        /\ call.err = "none"
        /\ call.val \in Elements(call.cls)
        /\ call.val = PolyMod(ClMul(call.a, call.b), call.cls.irreducible_poly)

C1_Witness ==
    /\ call.op = "multiply"
    /\ call.cls.degree = 3
    /\ ClMul(call.a, call.b) >= order(call.cls)
    /\ ~IsIrreducible(call.cls.irreducible_poly, call.cls.degree)
    /\ call.val > 1

(***************************************************************************)
(* C3 as stated: in GF(2^3) with modulus 0b1011, multiply(0b011, 0b110)    *)
(* returns 0b101.                                                          *)
(***************************************************************************)
C3_Scenario ==
    /\ call.op = "multiply"
    /\ call.cls = [degree |-> 3, irreducible_poly |-> 11]
    /\ call.a = 3
    /\ call.b = 6

C3_Original == C3_Scenario => call.val = 5

(***************************************************************************)
(* C3 amended: in GF(2^3) with modulus 0b1011, multiply(0b011, 0b110)      *)
(* returns 0b001, which is (x+1)(x^2+x) = x^3+x reduced modulo x^3+x+1.    *)
(***************************************************************************)
C3_MultiplyScenario ==
    C3_Scenario => call.val = 1 /\ PolyMod(ClMul(3, 6), 11) = 1

C3_Witness == C3_Scenario /\ call.err = "none"

(***************************************************************************)
(* C2: in every field GF(2^m), m >= 1, every nonzero a satisfies           *)
(* multiply(a, reciprocal(a)) = 1, the reciprocal kernel running with      *)
(* MULTIPLY bound to the field's own multiply kernel.                      *)
(***************************************************************************)
C2_ReciprocalIsInverse ==
    (call.op = "reciprocal" /\ call.a # 0 /\ MULTIPLY.cls = call.cls) =>
        /\ call.err = "none"
        /\ mul(call.cls, call.a, call.val) = 1

C2_Witness ==
    /\ call.op = "reciprocal"
    /\ MULTIPLY = _func_calculate(call.cls, "multiply")
    /\ call.cls.degree = 3
    /\ call.a > 1
    /\ call.val # call.a
    /\ call.mul = 4

(***************************************************************************)
(* C4 as stated: for every nonzero a and every element b, discrete_log     *)
(* returns e in [0, order-2] with b^e = a and no smaller exponent matching.*)
(***************************************************************************)
C4_Original ==
    (call.op = "log" /\ call.a # 0) =>
        /\ call.err = "none"
        /\ call.val \in 0 .. (order(call.cls) - 2)
        /\ RefPow(call.cls, call.b, call.val) = call.a
        /\ \A e \in 0 .. (call.val - 1) : RefPow(call.cls, call.b, e) # call.a

(***************************************************************************)
(* C4 amended: for every nonzero a and every b of which a is a power (so   *)
(* for every primitive b), discrete_log returns the least e in             *)
(* [0, order-2] with b^e = a; when a is no power of b the scan runs out    *)
(* and order-2 is returned.                                                *)
(***************************************************************************)
C4_LogIsLeastExponent ==
    (call.op = "log" /\ call.a # 0) =>
        /\ call.err = "none"
        /\ call.val \in 0 .. (order(call.cls) - 2)
        /\ HasLog(call.cls, call.a, call.b) =>
              (/\ RefPow(call.cls, call.b, call.val) = call.a
               /\ \A e \in 0 .. (call.val - 1) : RefPow(call.cls, call.b, e) # call.a)
        /\ ~HasLog(call.cls, call.a, call.b) => (call.val = order(call.cls) - 2)

C4_Witness ==
    /\ call.op = "log"
    /\ call.a # 0
    /\ call.cls.degree = 3
    /\ HasLog(call.cls, call.a, call.b)
    /\ call.val = order(call.cls) - 2
    /\ call.mul = call.val

(***************************************************************************)
(* C5: reciprocal(0), divide(x, 0) for every x (x = 0 included) and        *)
(* power(0, b) for b < 0 raise ZeroDivisionError, discrete_log(0, b)       *)
(* raises ArithmeticError, and no call through MULTIPLY or RECIPROCAL      *)
(* precedes the raise.                                                     *)
(***************************************************************************)
C5_ZeroErrors ==
    /\ (call.op = "reciprocal" /\ call.a = 0) =>
           (call.err = "ZeroDivisionError" /\ call.mul = 0 /\ call.rec = 0)
    /\ (call.op = "divide" /\ call.b = 0) =>
           (call.err = "ZeroDivisionError" /\ call.mul = 0 /\ call.rec = 0)
    /\ (call.op = "power" /\ call.a = 0 /\ call.b < 0) =>
           (call.err = "ZeroDivisionError" /\ call.mul = 0 /\ call.rec = 0)
    /\ (call.op = "log" /\ call.a = 0) =>
           (call.err = "ArithmeticError" /\ call.mul = 0 /\ call.rec = 0)

C5_Witness ==
    /\ call.op = "divide"
    /\ call.a = 0
    /\ call.b = 0
    /\ call.err = "ZeroDivisionError"

(***************************************************************************)
(* C6: power(a, e) is the product of e copies of a for e >= 0 (1 for e = 0,*)
(* also when a = 0), and the product of |e| copies of reciprocal(a) for    *)
(* e < 0 and a nonzero.                                                    *)
(***************************************************************************)
C6_PowerIsRepeatedProduct ==
    call.op = "power" =>
        /\ call.b >= 0 =>
              (call.err = "none" /\ call.val = RefPow(call.cls, call.a, call.b))
        /\ (call.b < 0 /\ call.a # 0) =>
              /\ call.err = "none"
              /\ call.val = RefPow(call.cls, reciprocal(call.cls, call.a), abs(call.b))

C6_Witness ==
    /\ call.op = "power"
    /\ call.b <= 0 - 3
    /\ call.a > 1
    /\ call.cls.degree = 3
    /\ call.val # call.a

(***************************************************************************)
(* C7 as stated: whenever reciprocal, divide, power or log of class F runs *)
(* directly after _set_globals(F, <its name>), both MULTIPLY and           *)
(* RECIPROCAL refer to kernels of F.                                       *)
(***************************************************************************)
C7_Invoked ==
    /\ call.op \in CompositeOps
    /\ rebind = [cls |-> call.cls, name |-> call.op]

C7_Original ==
    C7_Invoked => (MULTIPLY.cls = call.cls /\ RECIPROCAL.cls = call.cls)

(***************************************************************************)
(* C7 amended: whenever reciprocal, divide, power or log of class F runs   *)
(* directly after _set_globals(F, <its name>), MULTIPLY is F's multiply    *)
(* kernel, and for divide and power (the two kernels that call it)         *)
(* RECIPROCAL is F's reciprocal kernel; for reciprocal and log the         *)
(* RECIPROCAL slot keeps the binding the previous caller left.             *)
(***************************************************************************)
C7_UsedSlotsBound ==
    C7_Invoked =>
        /\ MULTIPLY = _func_calculate(call.cls, "multiply")
        /\ call.op \in {"divide", "power"} =>
              (RECIPROCAL = _func_calculate(call.cls, "reciprocal"))

C7_Witness ==
    /\ C7_Invoked
    /\ call.op = "log"
    /\ MULTIPLY.cls = call.cls
    /\ RECIPROCAL.cls \in FieldClasses \ {call.cls}

(***************************************************************************)
(* C8: for every a and every nonzero b, multiply(divide(a, b), b) = a;     *)
(* divide(0, b) = 0 without a call to reciprocal, and otherwise            *)
(* divide(a, b) = multiply(a, reciprocal(b)).                              *)
(***************************************************************************)
C8_DivideUndoneByMultiply ==
    (call.op = "divide" /\ call.b # 0) =>
        /\ call.err = "none"
        /\ mul(call.cls, call.val, call.b) = call.a
        /\ call.a = 0 => (call.val = 0 /\ call.rec = 0)
        /\ call.a # 0 => (call.val = mul(call.cls, call.a, reciprocal(call.cls, call.b)))

C8_Witness ==
    /\ call.op = "divide"
    /\ call.cls.degree = 3
    /\ call.a > 1
    /\ call.b > 1
    /\ call.a # call.b
    /\ call.rec = 1

(***************************************************************************)
(* C9: for every primitive element b and every e with 0 <= e < order - 1,  *)
(* discrete_log(power(b, e), b) = e.                                       *)
(***************************************************************************)
C9_LogOfPower ==
    (/\ call.op = "power"
     /\ IsPrimitive(call.cls, call.a)
     /\ call.b \in 0 .. (order(call.cls) - 2)) =>
        /\ call.err = "none"
        /\ discrete_log(call.cls, call.val, call.a).err = "none"
        /\ discrete_log(call.cls, call.val, call.a).val = call.b

C9_Witness ==
    /\ call.op = "power"
    /\ call.cls.degree = 3
    /\ IsPrimitive(call.cls, call.a)
    /\ call.b = order(call.cls) - 2

(***************************************************************************)
(* C10: in every field GF(2^m), m >= 1, sqrt(a) = power(a, 2^(m-1))        *)
(* satisfies multiply(sqrt(a), sqrt(a)) = a for every a, zero included.    *)
(***************************************************************************)
C10_SqrtSquared ==
    call.op = "sqrt" =>
        /\ call.err = "none"
        /\ call.val \in Elements(call.cls)
        /\ mul(call.cls, call.val, call.val) = call.a

C10_Witness ==
    /\ call.op = "sqrt"
    /\ call.cls.degree = 3
    /\ call.a > 1
    /\ call.val # call.a

====
